---------------------------- MODULE Spec2Model ----------------------------
(***************************************************************************)
(* A model of the Potree 2.0 point cloud readers of py_potree_data_reader: *)
(* the bit deinterleaver, the Morton decoders, the hierarchy parser, the   *)
(* Brotli reader (node decoder included) and the uncompressed reader.      *)
(*                                                                         *)
(* 32-bit words are modelled as the set of their set bit positions, a      *)
(* subset of 0..31, so that numpy's uint32 arithmetic (masks, shifts that  *)
(* drop the bits leaving the word) is exact and never exceeds the range of *)
(* the checker's integers.  Bytes are integers 0..255.                     *)
(***************************************************************************)
EXTENDS Integers, Sequences, FiniteSets, TLC

VARIABLES
  pc,                     \* position inside the running function
  error,                  \* the exception that ended the call, or "none"
  metadata,               \* self._metadata / metadata (metadata.json)
  hierarchy_bytes,        \* content of hierarchy.bin
  data_to_read,           \* parse_potree_hierarchy's result
  octree,                 \* brotli: payloads decompressed so far; uncompressed: octree.bin
  node_bytes,             \* the decompressed buffer of the current node
  data,                   \* the defaultdict of columns, name -> column
  current_index,          \* the row cursor of _read_potree_octree
  node_idx,               \* index of the current node in data_to_read
  attr_idx,               \* index of the current attribute in the schema
  attributes_byte_offset, \* the local byte cursor of the current node
  decoded,                \* the value decoded for the current attribute
  hierarchy_records,      \* the records hierarchy.bin was written from
  result,                 \* what read_point_cloud returned
  file_pos,               \* uncompressed: position of the file object
  points,                 \* uncompressed: the list of rows
  morton_code,            \* dealign24b's argument
  dealigned,              \* dealign24b's result
  block_bytes,            \* read_node_positions_data's argument morton_code_bytes
  block_points,           \* read_node_positions_data's argument num_points
  positions               \* what read_node_positions_data returned

vars == <<pc, error, metadata, hierarchy_bytes, data_to_read, octree, node_bytes,
          data, current_index, node_idx, attr_idx, attributes_byte_offset, decoded,
          hierarchy_records, result, file_pos, points, morton_code, dealigned,
          block_bytes, block_points, positions>>

\* A value for a variable the running function does not have.
None == "None"

-----------------------------------------------------------------------------
(* Arithmetic helpers *)

RECURSIVE Pow2Rec(_)
Pow2Rec(k) == IF k = 0 THEN 1 ELSE 2 * Pow2Rec(k - 1)

Pow2Table == [k \in 0..30 |-> Pow2Rec(k)]

Pow2(k) == Pow2Table[k]

RECURSIVE Pow256(_)
Pow256(k) == IF k = 0 THEN 1 ELSE 256 * Pow256(k - 1)

Min(a, b) == IF a < b THEN a ELSE b

Max(a, b) == IF a > b THEN a ELSE b

RECURSIVE SetSum(_)
SetSum(S) == IF S = {} THEN 0 ELSE LET e == CHOOSE e \in S : TRUE IN Pow2(e) + SetSum(S \ {e})

\* The set bits of a non-negative integer below 2^31.
Bits(v) == {k \in 0..30 : (v \div Pow2(k)) % 2 = 1}

\* The integer a word stands for (words below 2^31 only).
Val(w) == SetSum(w)

\* numpy uint32 operators on words.
BitAnd(a, b) == a \cap b

BitOr(a, b) == a \cup b

Shr(a, k) == {b - k : b \in {c \in a : c >= k}}

Shl(a, k) == {b + k : b \in {c \in a : c + k <= 31}}

\* Python's seq[from:to] for 0 <= from, 0-based, clipped to the sequence.
Slice(s, from, to) == SubSeq(s, Min(from, Len(s)) + 1, Min(to, Len(s)))

-----------------------------------------------------------------------------
(* dealign24b *)

MaskStep1Hi == 2130440
MaskStep1Lo == 266305
MaskStep2Hi == 786624
MaskStep2Lo == 12291
MaskStep3Hi == 61440
MaskStep3Lo == 15
MaskStep4Hi == 0
MaskStep4Lo == 255

M1Hi == Bits(MaskStep1Hi)
M1Lo == Bits(MaskStep1Lo)
M2Hi == Bits(MaskStep2Hi)
M2Lo == Bits(MaskStep2Lo)
M3Hi == Bits(MaskStep3Hi)
M3Lo == Bits(MaskStep3Lo)
M4Hi == Bits(MaskStep4Hi)
M4Lo == Bits(MaskStep4Lo)

\* The four steps with the third shifting by 4 in place of 8.
Dealign24bWrongMask(w) ==
  LET x1 == BitOr(Shr(BitAnd(w, M1Hi), 2), BitAnd(w, M1Lo))
      x2 == BitOr(Shr(BitAnd(x1, M2Hi), 4), BitAnd(x1, M2Lo))
      x3 == BitOr(Shr(BitAnd(x2, M3Hi), 4), BitAnd(x2, M3Lo))
      x4 == BitOr(Shr(BitAnd(x3, M4Hi), 16), BitAnd(x3, M4Lo))
  IN  x4

dealign24b(w) ==
  LET x1 == BitOr(Shr(BitAnd(w, M1Hi), 2), BitAnd(w, M1Lo))
      x2 == BitOr(Shr(BitAnd(x1, M2Hi), 4), BitAnd(x1, M2Lo))
      x3 == BitOr(Shr(BitAnd(x2, M3Hi), 8), BitAnd(x2, M3Lo))
      x4 == BitOr(Shr(BitAnd(x3, M4Hi), 16), BitAnd(x3, M4Lo))
  IN  x4


\* dealign24b is applied to one argument, drawn from the values below 2^24
\* with at most MaxSetBits bits set and their complements in 24 bits.
MaxSetBits == 3

RECURSIVE BitSetsUpTo(_)
BitSetsUpTo(k) ==
  IF k = 0 THEN {{}}
  ELSE LET P == BitSetsUpTo(k - 1) IN P \cup {S \cup {b} : S \in P, b \in 0..23}

DealignInputs ==
  LET sparse == BitSetsUpTo(MaxSetBits)
  IN  {Val(S) : S \in sparse} \cup {Val((0..23) \ S) : S \in sparse}

-----------------------------------------------------------------------------
(* struct.pack / struct.unpack, native (little-endian) byte order *)

\* Byte i (0-based) of the two's complement encoding of v, |v| < 2^31.
ByteOf(v, i) ==
  IF i < 4 THEN (v \div Pow256(i)) % 256 ELSE IF v < 0 THEN 255 ELSE 0

PackSigned(v, n) == [i \in 1..n |-> ByteOf(v, i - 1)]

\* struct.unpack of one signed integer of Len(b) bytes.
RECURSIVE UnpackFrom(_, _, _)
UnpackFrom(b, i, acc) ==
  IF i = 0 THEN acc ELSE UnpackFrom(b, i - 1, acc * 256 + b[i])

UnpackSigned(b) ==
  LET n == Len(b)
      top == IF b[n] >= 128 THEN b[n] - 256 ELSE b[n]
  IN  UnpackFrom(b, n - 1, top)

\* The unsigned little-endian integer of a byte string (np.frombuffer, '<uN').
UnpackUnsigned(b) == UnpackFrom(b, Len(b), 0)

-----------------------------------------------------------------------------
(* parse_potree_hierarchy *)

BYTES_PER_NODE == 22
POTREE_PROXY_NODE_TYPE == 2
NUM_POINTS_BEGIN_BYTE == 2
NUM_POINTS_END_BYTE == 6
IntSize == 4
TwoLongsSize == 16

\* The filter with `or` in place of `and`: keeps a proxy that has a payload.
KeepNodeOr(node_type, byte_size) ==
  node_type /= POTREE_PROXY_NODE_TYPE \/ byte_size /= 0

KeepNode(node_type, byte_size) ==
  node_type /= POTREE_PROXY_NODE_TYPE /\ byte_size /= 0

\* The loop over range(0, len(hierarchy_bytes), BYTES_PER_NODE); a slice that
\* is too short for its struct format raises struct.error.
RECURSIVE ParseLoop(_, _, _)
ParseLoop(hb, begin_index, acc) ==
  IF begin_index >= Len(hb) THEN [error |-> "none", nodes |-> acc]
  ELSE
    LET node_type == hb[begin_index + 1]
        num_points_bytes == Slice(hb, begin_index + NUM_POINTS_BEGIN_BYTE,
                                      begin_index + NUM_POINTS_END_BYTE)
        rest == Slice(hb, begin_index + NUM_POINTS_END_BYTE,
                          begin_index + BYTES_PER_NODE)
    IN  IF Len(num_points_bytes) /= IntSize \/ Len(rest) /= TwoLongsSize
        THEN [error |-> "struct.error", nodes |-> <<>>]
        ELSE
          LET num_points == UnpackSigned(num_points_bytes)
              byte_offset == UnpackSigned(SubSeq(rest, 1, 8))
              byte_size == UnpackSigned(SubSeq(rest, 9, 16))
          IN  ParseLoop(hb, begin_index + BYTES_PER_NODE,
                        IF KeepNode(node_type, byte_size)
                        THEN Append(acc, <<num_points, byte_offset, byte_size>>)
                        ELSE acc)

parse_potree_hierarchy(hb) == ParseLoop(hb, 0, <<>>)

\* The 22 bytes of one hierarchy record (the layout the Potree converter
\* writes: type, child mask, int32 count, int64 offset, int64 size).
PackRecord(r) ==
  <<r.type, r.mask>> \o PackSigned(r.num_points, 4)
    \o PackSigned(r.byte_offset, 8) \o PackSigned(r.byte_size, 8)

RECURSIVE PackHierarchy(_)
PackHierarchy(recs) ==
  IF recs = <<>> THEN <<>> ELSE PackRecord(Head(recs)) \o PackHierarchy(Tail(recs))

RECURSIVE SeqsUpTo(_, _)
SeqsUpTo(S, n) ==
  IF n = 0 THEN {<<>>}
  ELSE LET P == SeqsUpTo(S, n - 1) IN P \cup {Append(q, e) : q \in P, e \in S}

-----------------------------------------------------------------------------
(* read_node_positions_data and read_node_rgb_data *)

MIN_BYTES_FOR_MORTON_CODE == 16
BYTES_FOR_RGB == 8
Low24 == 16777215
Low24Bits == Bits(Low24)

\* The set bits of each byte value.
ByteBits == [v \in 0..255 |-> {k \in 0..7 : (v \div Pow2(k)) % 2 = 1}]

\* The uint32 word stored little-endian in bytes b[at+1..at+4].
WordAt(b, at) == UNION {{8 * i + k : k \in ByteBits[b[at + i + 1]]} : i \in 0..3}

\* One axis of a Morton pair: dealign of the low 24 bits of lo, and of the
\* next 24 bits taken across lo and hi, each pre-shifted by the axis.
Lane(lo, hi, axis) ==
  BitOr(dealign24b(Shr(BitAnd(lo, Low24Bits), axis)),
        Shl(dealign24b(Shr(BitOr(Shr(lo, 24), Shl(hi, 8)), axis)), 8))

\* The decoder with the high halves decided for each record on its own.
ReadNodePositionsDataPerRecord(morton_code_bytes, num_points) ==
  IF Len(morton_code_bytes) < MIN_BYTES_FOR_MORTON_CODE
  THEN [error |-> "none", isnone |-> TRUE, value |-> <<>>]
  ELSE IF Len(morton_code_bytes) < num_points * 16
  THEN [error |-> "ValueError: buffer is smaller than requested size",
        isnone |-> FALSE, value |-> <<>>]
  ELSE
    LET mc_1(r) == WordAt(morton_code_bytes, 16 * (r - 1))
        mc_0(r) == WordAt(morton_code_bytes, 16 * (r - 1) + 4)
        mc_3(r) == WordAt(morton_code_bytes, 16 * (r - 1) + 8)
        mc_2(r) == WordAt(morton_code_bytes, 16 * (r - 1) + 12)
        axis(r, a) ==
          IF mc_1(r) /= {} \/ mc_2(r) /= {}
          THEN BitOr(Lane(mc_3(r), mc_2(r), a), Shl(Lane(mc_1(r), mc_0(r), a), 16))
          ELSE Lane(mc_3(r), mc_2(r), a)
    IN  [error |-> "none", isnone |-> FALSE,
         value |-> [r \in 1..num_points |-> <<axis(r, 0), axis(r, 1), axis(r, 2)>>]]

\* None (isnone) below 16 bytes; ValueError when the buffer is smaller than the
\* num_points * 4 words np.frombuffer is asked for; else the (n, 3) array,
\* a sequence of rows <<x, y, z>> of uint32 words.
read_node_positions_data(morton_code_bytes, num_points) ==
  IF Len(morton_code_bytes) < MIN_BYTES_FOR_MORTON_CODE
  THEN [error |-> "none", isnone |-> TRUE, value |-> <<>>]
  ELSE IF Len(morton_code_bytes) < num_points * 16
  THEN [error |-> "ValueError: buffer is smaller than requested size",
        isnone |-> FALSE, value |-> <<>>]
  ELSE
    LET mc_1(r) == WordAt(morton_code_bytes, 16 * (r - 1))
        mc_0(r) == WordAt(morton_code_bytes, 16 * (r - 1) + 4)
        mc_3(r) == WordAt(morton_code_bytes, 16 * (r - 1) + 8)
        mc_2(r) == WordAt(morton_code_bytes, 16 * (r - 1) + 12)
        high == \E r \in 1..num_points : mc_1(r) /= {} \/ mc_2(r) /= {}
        axis(r, a) ==
          IF high
          THEN BitOr(Lane(mc_3(r), mc_2(r), a), Shl(Lane(mc_1(r), mc_0(r), a), 16))
          ELSE Lane(mc_3(r), mc_2(r), a)
    IN  [error |-> "none", isnone |-> FALSE,
         value |-> [r \in 1..num_points |-> <<axis(r, 0), axis(r, 1), axis(r, 2)>>]]

\* np.where(c > 255, c / 256, c): a channel as the fraction <<numerator, denominator>>.
Normalize(c) == IF Val(c) > 255 THEN <<Val(c), 256>> ELSE <<Val(c), 1>>

read_node_rgb_data(morton_code_bytes, num_points) ==
  IF Len(morton_code_bytes) < num_points * 8
  THEN [error |-> "ValueError: buffer is smaller than requested size", value |-> <<>>]
  ELSE
    LET mc_1(r) == WordAt(morton_code_bytes, 8 * (r - 1))
        mc_0(r) == WordAt(morton_code_bytes, 8 * (r - 1) + 4)
    IN  [error |-> "none",
         value |-> [r \in 1..num_points |->
                      <<Normalize(Lane(mc_1(r), mc_0(r), 0)),
                        Normalize(Lane(mc_1(r), mc_0(r), 1)),
                        Normalize(Lane(mc_1(r), mc_0(r), 2))>>]]

-----------------------------------------------------------------------------
(* numpy: np.frombuffer of a generic attribute, and slice assignment *)

POSITION_ATTRIBUTE == "position"
RGB_ATTRIBUTE == "rgb"

\* PotreePointCloudReaderBase.TYPES_MAPPING: numpy dtype (item size, kind) by key.
TYPES_MAPPING ==
  [k \in {"uint8", "uint16", "uint32", "int16", "float", "double"} |->
     CASE k = "uint8"  -> [itemsize |-> 1, kind |-> "uint"]
       [] k = "uint16" -> [itemsize |-> 2, kind |-> "uint"]
       [] k = "uint32" -> [itemsize |-> 4, kind |-> "uint"]
       [] k = "int16"  -> [itemsize |-> 2, kind |-> "int"]
       [] k = "float"  -> [itemsize |-> 4, kind |-> "float"]
       [] k = "double" -> [itemsize |-> 8, kind |-> "float"]]

\* One little-endian element of the dtype; a float keeps its bytes.
Element(bytes, dt) ==
  CASE dt.kind = "uint" -> UnpackUnsigned(bytes)
    [] dt.kind = "int" -> UnpackSigned(bytes)
    [] OTHER -> <<"float", bytes>>

\* np.frombuffer(bytes_to_read, dtype=dt): a 1-D array, or ValueError when the
\* length is no multiple of the item size.
frombuffer(bytes_to_read, dt) ==
  IF Len(bytes_to_read) % dt.itemsize /= 0
  THEN [error |-> "ValueError: buffer size must be a multiple of element size",
        value |-> <<>>]
  ELSE [error |-> "none",
        value |-> [i \in 1..(Len(bytes_to_read) \div dt.itemsize) |->
                     Element(SubSeq(bytes_to_read, (i - 1) * dt.itemsize + 1,
                                    i * dt.itemsize), dt)]]

\* column[from:to] = value, the column a 1-D float64 array.  ndim is the
\* number of dimensions of value (0 for None, which numpy stores as nan).
\* A 2-D value (m, 3) broadcasts only as (1, 3) into a slice of length 3; a
\* 1-D value (m,) only when m is the slice's length or 1.
SetSlice(column, from, to, value, ndim) ==
  LET lo == Min(from, Len(column))
      hi == Max(lo, Min(to, Len(column)))
      L == hi - lo
      kind == CASE ndim = 0 -> "nan"
                [] ndim = 1 /\ Len(value) = L -> "same"
                [] ndim = 1 /\ Len(value) = 1 -> "first"
                [] ndim = 2 /\ Len(value) = 1 /\ L = 3 -> "row"
                [] OTHER -> "error"
  IN  IF kind = "error"
      THEN [error |-> "ValueError: could not broadcast input array", column |-> column]
      ELSE [error |-> "none",
            column |-> [i \in 1..Len(column) |->
                          IF i > lo /\ i <= hi
                          THEN CASE kind = "nan" -> "nan"
                                 [] kind = "same" -> value[i - lo]
                                 [] kind = "first" -> value[1]
                                 [] OTHER -> value[1][i - lo]
                          ELSE column[i]]]

\* np.zeros(self._metadata[POINTS_KEY])
Zeros(n) == [i \in 1..n |-> 0]

\* data[name] of the defaultdict: the column, created on first access.
Column(d, name, n) == IF name \in DOMAIN d THEN d[name] ELSE Zeros(n)

Put(d, name, column) ==
  [k \in DOMAIN d \cup {name} |-> IF k = name THEN column ELSE d[k]]

-----------------------------------------------------------------------------
(* Inputs of the readers *)

MaxPoints == 2
MaxNodes == 2

Attr(name, type, size) == [name |-> name, type |-> type, size |-> size]

\* The attribute schemas of metadata.json the readers are run on.
Schemas ==
  { <<Attr("position", "int32", 12)>>,
    <<Attr("position", "int32", 12), Attr("rgb", "uint16", 6),
      Attr("classification", "uint8", 1)>>,
    <<Attr("uint8", "uint8", 1)>>,
    <<Attr("uint8", "uint8", 1), Attr("uint16", "uint16", 2)>>,
    <<Attr("classification", "uint8", 1)>>,
    <<Attr("uint8", "uint8", 1), Attr("rgb", "uint16", 6)>>,
    <<Attr("float", "bogus", 4)>>,
    <<Attr("intensity", "int64", 8)>> }

Transforms ==
  { [scale |-> <<1, 1, 1>>, offset |-> <<0, 0, 0>>],
    [scale |-> <<2, 3, 4>>, offset |-> <<10, -20, 30>>] }

MetadatasOver(schemas) ==
  { [version |-> v, encoding |-> e, points |-> p, scale |-> t.scale,
     offset |-> t.offset, attributes |-> a] :
      v \in {"2.0", "1.8"}, e \in {"BROTLI", "DEFAULT"}, p \in 0..MaxPoints,
      t \in Transforms, a \in schemas }

Rec(type, num_points, byte_offset, byte_size) ==
  [type |-> type, mask |-> 255, num_points |-> num_points,
   byte_offset |-> byte_offset, byte_size |-> byte_size]

\* Hierarchy records of the Brotli reader's runs: a proxy, an empty node,
\* and nodes of 1..MaxPoints points.
ReaderRecords ==
  {Rec(2, 1, 0, 9), Rec(0, 0, 0, 0)} \cup {Rec(0, n, 0, 9) : n \in 1..MaxPoints}

\* Bytes of a decompressed node payload: byte k (1-based) of a payload.
PayloadByte(seed, k) == (seed + 5 * k) % 128

Payload(seed, len) == [k \in 1..len |-> PayloadByte(seed, k)]

\* The width the decoder's byte cursor gives an attribute (lines 185, 189, 195).
Width(a) ==
  IF a.name = POSITION_ATTRIBUTE THEN MIN_BYTES_FOR_MORTON_CODE
  ELSE IF a.name = RGB_ATTRIBUTE THEN BYTES_FOR_RGB
  ELSE a.size

RECURSIVE SumWidths(_)
SumWidths(attrs) ==
  IF attrs = <<>> THEN 0 ELSE Width(Head(attrs)) + SumWidths(Tail(attrs))

RECURSIVE SumPoints(_)
SumPoints(nodes) ==
  IF nodes = <<>> THEN 0 ELSE Head(nodes)[1] + SumPoints(Tail(nodes))

\* What brotli.decompress may give for a node of num_points points: a payload
\* of the exact length of the schema, one byte more, one byte less, at most
\* 15 bytes, or an error.
PayloadLens(attrs, num_points) ==
  LET exact == num_points * SumWidths(attrs)
  IN  {exact, exact + 1, Max(exact - 1, 0), Min(exact, 15)}

-----------------------------------------------------------------------------
(* PotreeBrotliCompressedPointCloudReader *)

POTREE_FORMAT_VERSION == "2.0"
BROTLI_DATA_ENCODING == "BROTLI"
DEFAULT_DATA_ENCODING == "DEFAULT"

unusedBrotli == <<file_pos, points, morton_code, dealigned,
                  block_bytes, block_points, positions>>
inputs == <<metadata, hierarchy_bytes, hierarchy_records>>
decoder == <<octree, node_bytes, data, current_index, node_idx, attr_idx,
             attributes_byte_offset, decoded>>

Raise(e) == pc' = "error" /\ error' = e

\* One iteration of the attribute loop up to the column write (lines 183-198):
\* the decoded value, the bytes of the node buffer it was read from, the
\* column it goes to and the bytes the cursor advances by.
DecodeAttribute(a, buf, num_points, byte_offset) ==
  IF a.name = POSITION_ATTRIBUTE THEN
    LET r == read_node_positions_data(buf, num_points)
    IN  [error |-> r.error, value |-> r.value,
         ndim |-> IF r.isnone THEN 0 ELSE 2,
         src |-> <<0, IF r.isnone THEN 0 ELSE num_points * 16>>,
         column |-> POSITION_ATTRIBUTE,
         read_bytes_num |-> num_points * MIN_BYTES_FOR_MORTON_CODE]
  ELSE IF a.name = RGB_ATTRIBUTE THEN
    LET r == read_node_rgb_data(buf, num_points)
    IN  [error |-> r.error, value |-> r.value, ndim |-> 2,
         src |-> <<0, num_points * 8>>,
         column |-> RGB_ATTRIBUTE,
         read_bytes_num |-> num_points * BYTES_FOR_RGB]
  ELSE IF a.name \notin DOMAIN TYPES_MAPPING THEN
    [error |-> "KeyError", value |-> <<>>, ndim |-> 0, src |-> <<0, 0>>,
     column |-> a.name, read_bytes_num |-> 0]
  ELSE
    LET dt == TYPES_MAPPING[a.name]
        read_bytes_num == a.size * num_points
        bytes_to_read == Slice(buf, byte_offset, byte_offset + read_bytes_num)
        r == frombuffer(bytes_to_read, dt)
    IN  [error |-> r.error, value |-> r.value, ndim |-> 1,
         src |-> <<Min(byte_offset, Len(buf)),
                   Min(byte_offset, Len(buf)) + Len(bytes_to_read)>>,
         column |-> a.name, read_bytes_num |-> read_bytes_num]

\* A multiplication that accepts any left operand.
MultiplyAnyOperand(left_type) == "none"

\* points * scale (line 232): what Python's operator dispatch gives for the
\* type of the left operand.  A defaultdict defines no __mul__, and
\* ndarray.__rmul__ cannot multiply a dict either.
Multiply(left_type) ==
  IF left_type = "ndarray" THEN "none"
  ELSE "TypeError: unsupported operand type(s) for *"

NoDecoded ==
  [node |-> 0, attr |-> 0, name |-> "", at |-> 0, row |-> 0, src |-> <<0, 0>>,
   ndim |-> 0, value |-> <<>>, error |-> "none"]

NoResult == [returned |-> FALSE, value |-> <<>>]

\* line 213
OpenJson ==
  /\ pc = "open_json"
  /\ \E m \in MetadatasOver(Schemas) : metadata' = m
  /\ pc' = "check_version"
  /\ UNCHANGED <<error, hierarchy_bytes, hierarchy_records, data_to_read, result>>
  /\ UNCHANGED decoder /\ UNCHANGED unusedBrotli

\* lines 151-155
CheckPotreeFormatVersion ==
  /\ pc = "check_version"
  /\ IF metadata.version /= POTREE_FORMAT_VERSION
     THEN Raise("ValueError: version is not supported")
     ELSE pc' = "check_encoding" /\ UNCHANGED error
  /\ UNCHANGED <<data_to_read, result>>
  /\ UNCHANGED inputs /\ UNCHANGED decoder /\ UNCHANGED unusedBrotli

\* lines 157-162
CheckPotreeDataEncoding ==
  /\ pc = "check_encoding"
  /\ IF metadata.encoding /= BROTLI_DATA_ENCODING
     THEN Raise("ValueError: encoding is not supported")
     ELSE pc' = "read_files" /\ UNCHANGED error
  /\ UNCHANGED <<data_to_read, result>>
  /\ UNCHANGED inputs /\ UNCHANGED decoder /\ UNCHANGED unusedBrotli

\* lines 217-221: hierarchy.bin is read (octree.bin's node payloads are drawn
\* when a node is decompressed).
ReadFiles ==
  /\ pc = "read_files"
  /\ \E recs \in SeqsUpTo(ReaderRecords, MaxNodes) :
       /\ hierarchy_records' = recs
       /\ hierarchy_bytes' = PackHierarchy(recs)
  /\ pc' = "parse_hierarchy"
  /\ UNCHANGED <<error, metadata, data_to_read, result>>
  /\ UNCHANGED decoder /\ UNCHANGED unusedBrotli

\* line 223, and lines 176-177 of _read_potree_octree
ParseHierarchy ==
  /\ pc = "parse_hierarchy"
  /\ LET r == parse_potree_hierarchy(hierarchy_bytes)
     IN  IF r.error /= "none"
         THEN Raise(r.error) /\ UNCHANGED <<data_to_read, data, current_index, node_idx>>
         ELSE /\ data_to_read' = r.nodes
              /\ data' = <<>>
              /\ current_index' = 0
              /\ node_idx' = 1
              /\ pc' = "node"
              /\ UNCHANGED error
  /\ UNCHANGED <<octree, node_bytes, attr_idx, attributes_byte_offset, decoded, result>>
  /\ UNCHANGED inputs /\ UNCHANGED unusedBrotli

\* What octree records for a node slice brotli.decompress rejects.
InvalidStream == <<-1>>

\* lines 178-181: the next node is sliced and decompressed, or the loop ends
\* and _read_potree_octree returns.
NextNode ==
  /\ pc = "node"
  /\ IF node_idx > Len(data_to_read)
     THEN pc' = "count_check"
          /\ UNCHANGED <<error, octree, node_bytes, attr_idx, attributes_byte_offset>>
     ELSE \/ /\ Raise("brotli.error")
             /\ octree' = Append(octree, InvalidStream)
             /\ UNCHANGED <<node_bytes, attr_idx, attributes_byte_offset>>
          \/ \E len \in PayloadLens(metadata.attributes, data_to_read[node_idx][1]),
                seed \in {1, 77} :
               /\ node_bytes' = Payload(seed, len)
               /\ octree' = Append(octree, Payload(seed, len))
               /\ attributes_byte_offset' = 0
               /\ attr_idx' = 1
               /\ pc' = "attribute"
               /\ UNCHANGED error
  /\ UNCHANGED <<data_to_read, data, current_index, node_idx, decoded, result>>
  /\ UNCHANGED inputs /\ UNCHANGED unusedBrotli

\* lines 182-201: one attribute of the current node is decoded and written,
\* and both cursors advance.
ReadAttribute ==
  /\ pc = "attribute"
  /\ attr_idx <= Len(metadata.attributes)
  /\ \E a \in {metadata.attributes[attr_idx]}, num_points \in {data_to_read[node_idx][1]} :
     \E d \in {DecodeAttribute(a, node_bytes, num_points, attributes_byte_offset)} :
     \E w \in {IF d.error /= "none" THEN [error |-> "none", column |-> <<>>]
               ELSE SetSlice(Column(data, d.column, metadata.points), current_index,
                             current_index + num_points, d.value, d.ndim)} :
         /\ decoded' = [node |-> node_idx, attr |-> attr_idx, name |-> a.name,
                        at |-> attributes_byte_offset, row |-> current_index,
                        src |-> d.src, ndim |-> d.ndim, value |-> d.value,
                        error |-> d.error]
         /\ IF d.error /= "none"
            THEN Raise(d.error)
                 /\ UNCHANGED <<data, attributes_byte_offset, current_index, attr_idx>>
            ELSE /\ data' = Put(data, d.column, w.column)
                 /\ IF w.error /= "none"
                    THEN Raise(w.error)
                         /\ UNCHANGED <<attributes_byte_offset, current_index, attr_idx>>
                    ELSE /\ attributes_byte_offset' = attributes_byte_offset + d.read_bytes_num
                         /\ current_index' = current_index + num_points
                         /\ attr_idx' = attr_idx + 1
                         /\ UNCHANGED <<pc, error>>
  /\ UNCHANGED <<data_to_read, octree, node_bytes, node_idx, result>>
  /\ UNCHANGED inputs /\ UNCHANGED unusedBrotli

\* line 182: the attribute loop is exhausted, on to the next node
EndNode ==
  /\ pc = "attribute"
  /\ attr_idx > Len(metadata.attributes)
  /\ node_idx' = node_idx + 1
  /\ pc' = "node"
  /\ UNCHANGED <<error, data_to_read, octree, node_bytes, data, current_index,
                 attr_idx, attributes_byte_offset, decoded, result>>
  /\ UNCHANGED inputs /\ UNCHANGED unusedBrotli

\* lines 226-228: len(points) is the number of keys of the defaultdict
CheckPointsNumber ==
  /\ pc = "count_check"
  /\ IF Cardinality(DOMAIN data) /= metadata.points
     THEN Raise("ValueError: Points number mismatch")
     ELSE pc' = "affine" /\ UNCHANGED error
  /\ UNCHANGED <<data_to_read, result>>
  /\ UNCHANGED inputs /\ UNCHANGED decoder /\ UNCHANGED unusedBrotli

\* lines 230-232: points is the defaultdict _read_potree_octree returned
ScaleAndOffset ==
  /\ pc = "affine"
  /\ IF Multiply("defaultdict") /= "none"
     THEN Raise(Multiply("defaultdict")) /\ UNCHANGED result
     ELSE pc' = "done" /\ result' = [returned |-> TRUE, value |-> data]
          /\ UNCHANGED error
  /\ UNCHANGED data_to_read
  /\ UNCHANGED inputs /\ UNCHANGED decoder /\ UNCHANGED unusedBrotli

\* read_node_positions_data is not running on its own.
NoPositions == [error |-> "none", isnone |-> FALSE, value |-> <<>>]

NoBlock == block_bytes = <<>> /\ block_points = 0 /\ positions = NoPositions

Init ==
  /\ pc = "open_json"
  /\ error = "none"
  /\ metadata = None /\ hierarchy_bytes = <<>> /\ hierarchy_records = <<>>
  /\ data_to_read = <<>>
  /\ octree = <<>> /\ node_bytes = <<>> /\ data = <<>>
  /\ current_index = 0 /\ node_idx = 0 /\ attr_idx = 0
  /\ attributes_byte_offset = 0 /\ decoded = NoDecoded
  /\ result = NoResult
  /\ file_pos = None /\ points = None /\ morton_code = None /\ dealigned = None
  /\ NoBlock

Next ==
  \/ OpenJson
  \/ CheckPotreeFormatVersion
  \/ CheckPotreeDataEncoding
  \/ ReadFiles
  \/ ParseHierarchy
  \/ NextNode
  \/ ReadAttribute
  \/ EndNode
  \/ CheckPointsNumber
  \/ ScaleAndOffset

Spec == Init /\ [][Next]_vars

-----------------------------------------------------------------------------
(* dealign24b applied to one argument *)

idle == <<metadata, hierarchy_bytes, hierarchy_records, data_to_read, octree,
          node_bytes, data, current_index, node_idx, attr_idx,
          attributes_byte_offset, decoded, result, file_pos, points>>

block == <<block_bytes, block_points, positions>>

Idle ==
  /\ metadata = None /\ hierarchy_bytes = <<>> /\ hierarchy_records = <<>>
  /\ data_to_read = <<>>
  /\ octree = <<>> /\ node_bytes = <<>> /\ data = <<>>
  /\ current_index = 0 /\ node_idx = 0 /\ attr_idx = 0
  /\ attributes_byte_offset = 0 /\ decoded = NoDecoded
  /\ result = NoResult
  /\ file_pos = None /\ points = None

InitDealign ==
  /\ pc = "dealign24b"
  /\ error = "none"
  /\ morton_code \in DealignInputs
  /\ dealigned = 0
  /\ Idle
  /\ NoBlock

\* lines 50-55
Dealign24b ==
  /\ pc = "dealign24b"
  /\ dealigned' = Val(dealign24b(Bits(morton_code)))
  /\ pc' = "returned"
  /\ UNCHANGED <<error, morton_code>>
  /\ UNCHANGED idle /\ UNCHANGED block

SpecDealign == InitDealign /\ [][Dealign24b]_vars

-----------------------------------------------------------------------------
(* read_node_positions_data applied to one block of 16-byte records *)

MaxBlockRecords == 2

\* The words of a record, each as its four little-endian bytes.  The first
\* word w1 sets bits 0, 3, 15, 24, 27, 30; the second word w0 bits 1, 4, 7,
\* 10, 13, 16, 30, 31; the fourth word w2 bits 0, 2, 5, 9, 15, 24.
W1Words == {<<0, 0, 0, 0>>, <<9, 128, 0, 73>>}
W0Words == {<<0, 0, 0, 0>>, <<146, 36, 1, 192>>}
W3Words == {<<0, 0, 0, 0>>, <<255, 255, 255, 255>>, <<1, 2, 4, 8>>}
W2Words == {<<0, 0, 0, 0>>, <<37, 130, 0, 1>>}

\* A record is read as mc_1, mc_0, mc_3, mc_2 (line 72).
MortonRecords ==
  {w1 \o w0 \o w3 \o w2 :
     w1 \in W1Words, w0 \in W0Words, w3 \in W3Words, w2 \in W2Words}

RECURSIVE Flatten(_)
Flatten(recs) == IF recs = <<>> THEN <<>> ELSE Head(recs) \o Flatten(Tail(recs))

InitPositions ==
  /\ pc = "read_node_positions_data"
  /\ error = "none"
  /\ \E recs \in SeqsUpTo(MortonRecords, MaxBlockRecords) :
     \E n \in 0..(Len(recs) + 1) :
       /\ block_bytes = Flatten(recs)
       /\ block_points = n
  /\ positions = NoPositions
  /\ morton_code = None /\ dealigned = None
  /\ Idle

\* lines 67-84
ReadNodePositionsData ==
  /\ pc = "read_node_positions_data"
  /\ \E r \in {read_node_positions_data(block_bytes, block_points)} :
       /\ positions' = r
       /\ IF r.error /= "none"
          THEN Raise(r.error)
          ELSE pc' = "returned" /\ UNCHANGED error
  /\ UNCHANGED <<block_bytes, block_points, morton_code, dealigned>>
  /\ UNCHANGED idle

SpecPositions == InitPositions /\ [][ReadNodePositionsData]_vars

-----------------------------------------------------------------------------
(* parse_potree_hierarchy applied to one hierarchy.bin *)

MaxRecords == 3

\* Records of every node type, with negative, zero and multi-byte fields.
HierarchyRecords ==
  { Rec(t, f[1], f[2], f[3]) :
      t \in {0, 1, 2},
      f \in {<<0, 0, 0>>, <<3, 300, 513>>, <<-1, 70000, 2>>, <<5, 7, 0>>} }

\* Bytes after the last whole record: none, or a cut record.
Trailings == {<<>>, <<0, 255, 1>>}

InitHierarchy ==
  /\ pc = "parse_potree_hierarchy"
  /\ error = "none"
  /\ \E recs \in SeqsUpTo(HierarchyRecords, MaxRecords), t \in Trailings :
       /\ hierarchy_records = recs
       /\ hierarchy_bytes = PackHierarchy(recs) \o t
  /\ metadata = None
  /\ data_to_read = <<>>
  /\ octree = <<>> /\ node_bytes = <<>> /\ data = <<>>
  /\ current_index = 0 /\ node_idx = 0 /\ attr_idx = 0
  /\ attributes_byte_offset = 0 /\ decoded = NoDecoded
  /\ result = NoResult
  /\ file_pos = None /\ points = None /\ morton_code = None /\ dealigned = None
  /\ NoBlock

\* lines 118-132
ParsePotreeHierarchy ==
  /\ pc = "parse_potree_hierarchy"
  /\ \E r \in {parse_potree_hierarchy(hierarchy_bytes)} :
       IF r.error /= "none"
       THEN Raise(r.error) /\ UNCHANGED data_to_read
       ELSE pc' = "returned" /\ data_to_read' = r.nodes /\ UNCHANGED error
  /\ UNCHANGED <<metadata, hierarchy_bytes, hierarchy_records, result>>
  /\ UNCHANGED decoder /\ UNCHANGED unusedBrotli

SpecHierarchy == InitHierarchy /\ [][ParsePotreeHierarchy]_vars

-----------------------------------------------------------------------------
(* PotreeUncompressedPointCloudReader *)

MaxFilePoints == 2
PositionBytes == 12

\* calculate_bytes_per_point
RECURSIVE calculate_bytes_per_point(_)
calculate_bytes_per_point(attributes) ==
  IF attributes = <<>> THEN 0
  ELSE Head(attributes).size + calculate_bytes_per_point(Tail(attributes))

\* The schemas of the uncompressed reader's runs: each record starts with the
\* 12 bytes of its position.
DefaultSchemas ==
  { <<Attr("position", "int32", 12)>>,
    <<Attr("position", "int32", 12), Attr("rgb", "uint16", 6),
      Attr("classification", "uint8", 1)>>,
    <<Attr("position", "int32", 12), Attr("intensity", "uint16", 2),
      Attr("rgb", "uint16", 6), Attr("gps-time", "double", 8)>> }

Coords == {<<1, -2, 70000>>, <<-16777217, 255, 0>>}

\* The bytes of a record's other attributes.
OtherAttributes(seed, len) == [k \in 1..len |-> (seed + 5 * k) % 32]

\* One record of octree.bin: three int32 and the other attributes' bytes.
PackPoint(c, bytes_per_point, seed) ==
  PackSigned(c[1], 4) \o PackSigned(c[2], 4) \o PackSigned(c[3], 4)
    \o OtherAttributes(seed, Max(bytes_per_point - PositionBytes, 0))

RECURSIVE PackPoints(_, _, _)
PackPoints(cs, bytes_per_point, seed) ==
  IF cs = <<>> THEN <<>>
  ELSE PackPoint(Head(cs), bytes_per_point, seed)
         \o PackPoints(Tail(cs), bytes_per_point, seed)

\* The files octree.bin may be: whole records, or the last one cut.
OctreeFiles(bytes_per_point) ==
  { SubSeq(f, 1, Max(Len(f) - cut, 0)) :
      f \in {PackPoints(cs, bytes_per_point, seed) :
               cs \in SeqsUpTo(Coords, MaxFilePoints), seed \in {1, 77}},
      cut \in {0, 8, 9} }

unusedUncompressed ==
  <<hierarchy_bytes, hierarchy_records, data_to_read, node_bytes, data,
    current_index, node_idx, attr_idx, attributes_byte_offset, decoded,
    morton_code, dealigned, block_bytes, block_points, positions>>

InitUncompressed ==
  /\ pc = "open_json"
  /\ error = "none"
  /\ metadata = None /\ hierarchy_bytes = <<>> /\ hierarchy_records = <<>>
  /\ data_to_read = <<>>
  /\ octree = <<>> /\ node_bytes = <<>> /\ data = <<>>
  /\ current_index = 0 /\ node_idx = 0 /\ attr_idx = 0
  /\ attributes_byte_offset = 0 /\ decoded = NoDecoded
  /\ result = NoResult
  /\ file_pos = 0 /\ points = <<>> /\ morton_code = None /\ dealigned = None
  /\ NoBlock

\* line 67
UncompressedOpenJson ==
  /\ pc = "open_json"
  /\ \E m \in MetadatasOver(DefaultSchemas) : metadata' = m
  /\ pc' = "check_version"
  /\ UNCHANGED <<error, octree, result, file_pos, points>>
  /\ UNCHANGED unusedUncompressed

\* lines 40-47, called at line 68; _check_potree_data_encoding is never called
UncompressedCheckVersion ==
  /\ pc = "check_version"
  /\ IF metadata.version /= POTREE_FORMAT_VERSION
     THEN Raise("ValueError: version is not supported")
     ELSE pc' = "open_file" /\ UNCHANGED error
  /\ UNCHANGED <<metadata, octree, result, file_pos, points>>
  /\ UNCHANGED unusedUncompressed

\* lines 69-74
UncompressedOpenFile ==
  /\ pc = "open_file"
  /\ \E f \in OctreeFiles(calculate_bytes_per_point(metadata.attributes)) : octree' = f
  /\ points' = <<>>
  /\ file_pos' = 0
  /\ pc' = "loop"
  /\ UNCHANGED <<error, metadata, result>>
  /\ UNCHANGED unusedUncompressed

\* point_coordinates * scale + offset for a 1-D int32 array and two lists of
\* three numbers: shapes (3,) and (1,) broadcast, any other raises.
ScaleOffset(point_coordinates, scale, offset) ==
  IF Len(point_coordinates) \notin {1, 3}
  THEN [error |-> "ValueError: operands could not be broadcast together", value |-> <<>>]
  ELSE [error |-> "none",
        value |-> [j \in 1..3 |->
                     (IF Len(point_coordinates) = 1 THEN point_coordinates[1]
                      ELSE point_coordinates[j]) * scale[j] + offset[j]]]

\* A seek that skips none of the record's other bytes.
SeekByNothing(bytes_per_point) == 0

\* file.seek(bytes_per_point - 12, 1)
SeekBy(bytes_per_point) == bytes_per_point - PositionBytes

\* lines 75-79: one iteration of the loop over range(num_points)
UncompressedReadPoint ==
  /\ pc = "loop"
  /\ Len(points) < metadata.points
  /\ \E chunk \in {Slice(octree, file_pos, file_pos + PositionBytes)} :
     \E b \in {frombuffer(chunk, [itemsize |-> 4, kind |-> "int"])} :
     \E r \in {IF b.error /= "none" THEN b
               ELSE ScaleOffset(b.value, metadata.scale, metadata.offset)} :
     \E target \in {file_pos + Len(chunk)
                      + SeekBy(calculate_bytes_per_point(metadata.attributes))} :
       IF r.error /= "none"
       THEN Raise(r.error) /\ UNCHANGED <<points, file_pos>>
       ELSE /\ points' = Append(points, r.value)
            /\ IF target < 0
               THEN Raise("OSError: Invalid argument") /\ UNCHANGED file_pos
               ELSE file_pos' = target /\ UNCHANGED <<pc, error>>
  /\ UNCHANGED <<metadata, octree, result>>
  /\ UNCHANGED unusedUncompressed

\* line 80
UncompressedReturn ==
  /\ pc = "loop"
  /\ Len(points) >= metadata.points
  /\ result' = [returned |-> TRUE, value |-> points]
  /\ pc' = "done"
  /\ UNCHANGED <<error, metadata, octree, file_pos, points>>
  /\ UNCHANGED unusedUncompressed

NextUncompressed ==
  \/ UncompressedOpenJson
  \/ UncompressedCheckVersion
  \/ UncompressedOpenFile
  \/ UncompressedReadPoint
  \/ UncompressedReturn

SpecUncompressed == InitUncompressed /\ [][NextUncompressed]_vars

-----------------------------------------------------------------------------
(* Properties *)

Terminated == pc \in {"done", "error"}

\* The hierarchy was parsed: _read_potree_octree has started.
Parsed == node_idx >= 1

SpecialNames == {POSITION_ATTRIBUTE, RGB_ATTRIBUTE}

TypeTags == {"uint8", "uint16", "uint32", "int16", "float", "double"}

\* The size in bytes the format gives a type tag.
TagSize(t) ==
  CASE t = "uint8" -> 1 [] t = "uint16" -> 2 [] t = "uint32" -> 4
    [] t = "int16" -> 2 [] t = "float" -> 4 [] t = "double" -> 8

ValidSchema(attrs) ==
  \A i \in 1..Len(attrs) :
    \/ attrs[i].name \in SpecialNames
    \/ attrs[i].type \in TypeTags /\ attrs[i].size = TagSize(attrs[i].type)

\* Every node's payload was decompressed and has the length of its schema.
ValidPayloads ==
  /\ Len(octree) = Len(data_to_read)
  /\ \A k \in 1..Len(octree) :
       /\ octree[k] /= InvalidStream
       /\ Len(octree[k]) = data_to_read[k][1] * SumWidths(metadata.attributes)

ValidBrotliInput ==
  /\ Parsed
  /\ metadata.version = "2.0"
  /\ metadata.encoding = "BROTLI"
  /\ ValidSchema(metadata.attributes)
  /\ SumPoints(data_to_read) = metadata.points
  /\ ValidPayloads

\* The integer positions of all nodes from node k on, in hierarchy order.
RECURSIVE DecodedPositionsFrom(_)
DecodedPositionsFrom(k) ==
  IF k > Len(data_to_read) THEN <<>>
  ELSE read_node_positions_data(octree[k], data_to_read[k][1]).value
         \o DecodedPositionsFrom(k + 1)

\* C2: on every valid BROTLI input read_point_cloud returns, without error,
\* one column per schema attribute; the position column is the decoded
\* integer position times scale plus offset per axis, every other column is
\* what the node decoder wrote.
C2_ValidInputReturnsCloud ==
  (Terminated /\ ValidBrotliInput) =>
    /\ pc = "done"
    /\ result.returned
    /\ DOMAIN result.value
         = {metadata.attributes[i].name : i \in 1..Len(metadata.attributes)}
    /\ \A name \in DOMAIN result.value :
         IF name = POSITION_ATTRIBUTE
         THEN \A i \in 1..metadata.points, j \in 1..3 :
                result.value[name][i][j]
                  = Val(DecodedPositionsFrom(1)[i][j]) * metadata.scale[j]
                      + metadata.offset[j]
         ELSE result.value[name] = data[name]

\* The tuples of the records that are no proxy and have a payload, in order.
RECURSIVE EmittedRecords(_)
EmittedRecords(recs) ==
  IF recs = <<>> THEN <<>>
  ELSE LET r == Head(recs)
       IN  (IF r.type /= 2 /\ r.byte_size /= 0
            THEN <<<<r.num_points, r.byte_offset, r.byte_size>>>> ELSE <<>>)
             \o EmittedRecords(Tail(recs))

\* C3: on a hierarchy.bin whose length is a multiple of 22,
\* parse_potree_hierarchy returns exactly the (num_points, byte_offset,
\* byte_size) of the records that are no proxy and have a non-zero byte
\* size, in the order of the records, none dropped and none duplicated.
C3_ParseEmitsFilteredRecords ==
  (pc /= "parse_potree_hierarchy" /\ Len(hierarchy_bytes) % 22 = 0) =>
    /\ pc = "returned"
    /\ Len(hierarchy_bytes) = 22 * Len(hierarchy_records)
    /\ data_to_read = EmittedRecords(hierarchy_records)

\* Three records, a proxy between two nodes with payloads: two are emitted.
C3_Witness ==
  /\ pc = "returned"
  /\ Len(hierarchy_records) = 3
  /\ hierarchy_records[1].type = 0 /\ hierarchy_records[1].byte_size = 2
  /\ hierarchy_records[2].type = 2 /\ hierarchy_records[2].byte_size = 513
  /\ hierarchy_records[3].type = 1 /\ hierarchy_records[3].byte_size = 513
  /\ data_to_read = <<<<-1, 70000, 2>>, <<3, 300, 513>>>>

\* C4: a reader returns a result only if metadata 'version' is "2.0" and
\* metadata 'encoding' is the reader's tag; otherwise it raises before any
\* point is decoded.  Stated for the uncompressed reader ("DEFAULT").
C4_UncompressedRejectsOtherEncoding ==
  (pc /= "open_json"
     /\ (metadata.version /= "2.0" \/ metadata.encoding /= "DEFAULT")) =>
    /\ ~result.returned
    /\ pc /= "done"
    /\ points = <<>>

\* Bit k of v.
Bit(v, k) == (v \div Pow2Rec(k)) % 2

FileHoldsCloud ==
  Len(octree) >= metadata.points * calculate_bytes_per_point(metadata.attributes)

\* The int32 stored at bytes [at, at + 4) of octree.bin.
Int32At(at) == UnpackSigned(SubSeq(octree, at + 1, at + 4))

\* C6: on a DEFAULT cloud with bytes_per_point the sum of the attribute
\* sizes, the uncompressed reader returns exactly metadata 'points' rows,
\* row i (0-based) being the three int32 at bytes [i * bytes_per_point,
\* i * bytes_per_point + 12) of octree.bin, times scale plus offset per
\* axis; the other bytes of a record do not reach the output.
C6_UncompressedRowsAtStride ==
  (Terminated /\ metadata.version = "2.0" /\ metadata.encoding = "DEFAULT"
     /\ FileHoldsCloud) =>
    /\ pc = "done"
    /\ result.returned
    /\ Len(result.value) = metadata.points
    /\ \A i \in 1..metadata.points, j \in 1..3 :
         result.value[i][j]
           = Int32At((i - 1) * calculate_bytes_per_point(metadata.attributes)
                       + 4 * (j - 1)) * metadata.scale[j]
               + metadata.offset[j]

\* Two rows of a 19-byte record were returned, scaled and offset.
C6_Witness ==
  /\ pc = "done"
  /\ metadata.encoding = "DEFAULT"
  /\ metadata.points = 2
  /\ calculate_bytes_per_point(metadata.attributes) = 19
  /\ Len(octree) = 38
  /\ metadata.scale = <<2, 3, 4>>
  /\ result.value = <<<<12, -26, 280030>>, <<-33554424, 745, 30>>>>

\* The rows of the nodes before node k: the row cursor node k starts at.
RowsBefore(k) == SumPoints(SubSeq(data_to_read, 1, k - 1))

\* C7: every attribute of a node is written to the same rows [cursor,
\* cursor + num_points), cursor being the point count of the preceding
\* nodes; the row cursor advances once per node, so it equals that count
\* whenever an attribute is about to be read and the total at the end.
C7_RowCursorAdvancesOncePerNode ==
  /\ (pc = "attribute" /\ attr_idx <= Len(metadata.attributes))
       => current_index = RowsBefore(node_idx)
  /\ decoded.node >= 1 => decoded.row = RowsBefore(decoded.node)
  /\ pc = "count_check" => current_index = SumPoints(data_to_read)

\* The node buffer has the length the schema gives the node.
ExactPayload(k) ==
  Len(node_bytes) = data_to_read[k][1] * SumWidths(metadata.attributes)

\* C8: in a node the byte cursor starts at 0, and each attribute, in schema
\* order, is decoded from the node buffer at the byte cursor, which then
\* advances by 16 * num_points (position), 8 * num_points (rgb) or
\* size * num_points (others): rgb after position comes from [16n, 24n),
\* a uint8 classification after both from [24n, 25n).
C8_AttributesDecodedAtByteCursor ==
  (decoded.node >= 1 /\ ExactPayload(decoded.node)
     /\ ValidSchema(metadata.attributes)) =>
    LET a == metadata.attributes[decoded.attr]
        n == data_to_read[decoded.node][1]
        at == n * SumWidths(SubSeq(metadata.attributes, 1, decoded.attr - 1))
    IN  /\ decoded.at = at
        /\ decoded.error = "none"
        /\ decoded.src = <<at, at + n * Width(a)>>
        /\ decoded.value
             = IF a.name = POSITION_ATTRIBUTE
               THEN read_node_positions_data(
                      Slice(node_bytes, at, at + n * Width(a)), n).value
               ELSE IF a.name = RGB_ATTRIBUTE
               THEN read_node_rgb_data(
                      Slice(node_bytes, at, at + n * Width(a)), n).value
               ELSE [i \in 1..n |->
                       UnpackUnsigned(SubSeq(node_bytes, at + (i - 1) * a.size + 1,
                                             at + i * a.size))]

\* C9: for an attribute named neither position nor rgb the element encoding
\* follows the attribute's type tag: decoding raises exactly when the tag is
\* not one of uint8, uint16, uint32, int16, float, double, whatever the
\* attribute is called.
C9_ErrorIffUnknownTypeTag ==
  (decoded.node >= 1 /\ decoded.name \notin SpecialNames
     /\ ExactPayload(decoded.node)) =>
    (decoded.error /= "none"
       <=> metadata.attributes[decoded.attr].type \notin TypeTags)

\* C10: a node is decoded without error only if its decompressed payload is
\* num_points times the sum of the attribute widths long, the byte cursor
\* ending at the payload's end; trailing bytes or a short payload raise.
C10_NodeDecodesOnlyExactPayload ==
  (pc = "attribute" /\ attr_idx > Len(metadata.attributes)) =>
    /\ ExactPayload(node_idx)
    /\ attributes_byte_offset = Len(node_bytes)

\* Bit j of the little-endian integer stored in b from byte offset at.
BitOfBytes(b, at, j) == (b[at + (j \div 8) + 1] \div Pow2Rec(j % 8)) % 2 = 1

\* Some record of the block has a non-zero w1 (its bytes 0..3) or a non-zero
\* w2 (its bytes 12..15).
BlockHasHigh ==
  \E r \in 1..block_points : \E i \in 1..4 :
    \/ block_bytes[16 * (r - 1) + i] /= 0
    \/ block_bytes[16 * (r - 1) + 12 + i] /= 0

\* C11: with each 16-byte record read as the words w1, w0, w3, w2, bit k
\* (k < 16) of x, y, z is bit 3k, 3k + 1, 3k + 2 of the 64-bit value w2:w3
\* (record bytes 8..15); the high halves are decided once for the block: if
\* every record's w1 and w2 are zero all coordinates are below 2^16 whatever
\* w0 is, and if some record has a non-zero w1 or w2 then in every record
\* bit 16 + k of each axis is the same bit of w0:w1 (record bytes 0..7).
C11_HighBitsDecidedPerBlock ==
  (pc = "returned" /\ ~positions.isnone) =>
    /\ Len(positions.value) = block_points
    /\ \A r \in 1..block_points, a \in 0..2 :
         LET v == positions.value[r][a + 1]
         IN  /\ v \subseteq 0..31
             /\ \A k \in 0..15 :
                  k \in v <=> BitOfBytes(block_bytes, 16 * (r - 1) + 8, 3 * k + a)
             /\ \A k \in 0..15 :
                  (16 + k) \in v
                    <=> (BlockHasHigh
                           /\ BitOfBytes(block_bytes, 16 * (r - 1), 3 * k + a))

\* A block of two records: the first has a non-zero w1, the second has w1 and
\* w2 zero and a non-zero w0, whose bits still reach the high half of x.
C11_Witness ==
  /\ pc = "returned"
  /\ block_points = 2
  /\ Len(block_bytes) = 32
  /\ SubSeq(block_bytes, 1, 4) = <<9, 128, 0, 73>>
  /\ SubSeq(block_bytes, 17, 32)
       = <<0, 0, 0, 0, 146, 36, 1, 192, 255, 255, 255, 255, 0, 0, 0, 0>>
  /\ positions.value[2] = <<(0..10) \cup (27..31), 0..10, 0..9>>

=============================================================================
